---- MODULE Spec2Model ----
(***************************************************************************)
(* Coderr marketplace backend: users and profiles, the offer catalog with  *)
(* its three OfferDetail tiers, the order ledger with its snapshots, and   *)
(* the review ledger.  The database tables are the state; every request    *)
(* handler is one action.                                                  *)
(***************************************************************************)
EXTENDS Integers, Sequences, FiniteSets, TLC

VARIABLES users, staff, profile, offers, details, orders, reviews, seq, pending, resp, now

vars == <<users, staff, profile, offers, details, orders, reviews, seq, pending, resp, now>>

db == <<users, staff, profile, offers, details, orders, reviews, seq>>

\* ------------------------------------------------------------------ bounds
MaxUsers == 2
MaxOffers == 1
MaxOrders == 1
MaxReviews == 2
MaxPending == 2
MaxStaff == 1
MaxClock == 1
MaxListed == 3

\* ------------------------------------------------------- domains of values
Anon == 0

UserIds == 1..MaxUsers

Principals == UserIds \cup {Anon}

\* one id beyond the last that can be assigned, for requests on absent rows
OfferIds == 1..(MaxOffers + 1)

OrderIds == 1..(MaxOrders + 1)

OfferType == {"basic", "standard", "premium"}

Status == {"in_progress", "completed", "cancelled"}

USER_TYPES == {"customer", "business"}

\* JSON items of a features array; "#1" stands for a non-string item.
NonStrItems == {"#1"}

DetailFields == {"title", "revisions", "delivery_time_in_days", "price", "features"}

\* ----------------------------------------------------------------- helpers
Has(d, f) == f \in DOMAIN d

RemoveAt(s, i) == SubSeq(s, 1, i - 1) \o SubSeq(s, i + 1, Len(s))

Response(op, u, target, code) == [op |-> op, user |-> u, target |-> target, code |-> code]

is_authenticated(u) == u \in users

ProfileTypeOf(u) == IF u \in DOMAIN profile THEN profile[u].type ELSE ""

\* offers/api/permissions.py
is_business_profile(p) == p.type = "business"

IsBusinessUser_any_authenticated(u) == is_authenticated(u)

IsBusinessUser(u) ==
    /\ is_authenticated(u)
    /\ u \in DOMAIN profile
    /\ is_business_profile(profile[u])

IsOfferOwner_any_authenticated(u, oid) == is_authenticated(u)

IsOfferOwner(u, oid) == is_authenticated(u) /\ offers[oid].owner = u

\* orders/api/permissions.py
IsCustomerUser_any_authenticated(u) == is_authenticated(u)

IsCustomerUser(u) == is_authenticated(u) /\ ProfileTypeOf(u) = "customer"

IsOrderBusinessUser_identity_only(u, id) ==
    /\ is_authenticated(u)
    /\ orders[id].business_user = u

IsOrderBusinessUser(u, id) ==
    /\ is_authenticated(u)
    /\ ProfileTypeOf(u) = "business"
    /\ orders[id].business_user = u

\* ------------------------------------------------------------ registration
RegistrationTypes == USER_TYPES \cup {"admin"}

Registration(t) ==
    /\ Cardinality(users) < MaxUsers
    /\ LET id == Cardinality(users) + 1 IN
       IF t \notin USER_TYPES
       THEN /\ resp' = Response("Registration", Anon, 0, 400)
            /\ UNCHANGED <<db, pending, now>>
       ELSE /\ users' = users \cup {id}
            /\ profile' = (id :> [type |-> t]) @@ profile
            /\ resp' = Response("Registration", id, id, 201)
            /\ UNCHANGED <<staff, offers, details, orders, reviews, seq, pending, now>>

\* manage.py createsuperuser: an account with is_staff and no profile row
CreateSuperuser ==
    /\ Cardinality(users) < MaxUsers
    /\ Cardinality(staff) < MaxStaff
    /\ LET id == Cardinality(users) + 1 IN
       /\ users' = users \cup {id}
       /\ staff' = staff \cup {id}
       /\ resp' = Response("CreateSuperuser", id, id, 0)
       /\ UNCHANGED <<profile, offers, details, orders, reviews, seq, pending, now>>

\* admin site, UserAdmin change form: is_staff is set on an existing account
UserAdmin_change(u) ==
    /\ u \in users
    /\ u \notin staff
    /\ Cardinality(staff) < MaxStaff
    /\ staff' = staff \cup {u}
    /\ resp' = Response("UserAdmin_change", u, u, 0)
    /\ UNCHANGED <<users, profile, offers, details, orders, reviews, seq, pending, now>>

\* ------------------------------------------------------------ offer create
_ensure_features_is_str_list(features) == \A i \in DOMAIN features : features[i] \notin NonStrItems

_validate_non_negative(value, min_allowed) == ~(value < min_allowed)

\* field validation of the nested serializer followed by its validate()
OfferDetailSerializer_validate(d) ==
    /\ d.offer_type \in OfferType
    /\ d.revisions >= 0
    /\ d.delivery_time_in_days >= 0
    /\ _validate_non_negative(d.price, 0)
    /\ _validate_non_negative(d.delivery_time_in_days, 1)
    /\ _validate_non_negative(d.revisions, 0)
    /\ _ensure_features_is_str_list(d.features)

validate_details_any_length(value) ==
    /\ \A i \in DOMAIN value : value[i].offer_type \in OfferType
    /\ Cardinality({value[i].offer_type : i \in DOMAIN value}) = Len(value)

validate_details_no_unique(value) ==
    /\ Len(value) = 3
    /\ \A i \in DOMAIN value : value[i].offer_type \in OfferType

validate_details(value) ==
    /\ Len(value) = 3
    /\ \A i \in DOMAIN value : value[i].offer_type \in OfferType
    /\ Cardinality({value[i].offer_type : i \in DOMAIN value}) = Len(value)

\* unique_together = ("offer", "offer_type") among the rows of one insert batch
UniqueTogether(ds) == \A i, j \in DOMAIN ds : ds[i].offer_type = ds[j].offer_type => i = j

B1 == [offer_type |-> "basic", title |-> "a", revisions |-> 0, delivery_time_in_days |-> 1, price |-> 0, features |-> <<>>]

S1 == [offer_type |-> "standard", title |-> "a", revisions |-> 1, delivery_time_in_days |-> 2, price |-> 1, features |-> <<"x">>]

P1 == [offer_type |-> "premium", title |-> "b", revisions |-> 1, delivery_time_in_days |-> 2, price |-> 2, features |-> <<"x">>]

BadDetails ==
    { [B1 EXCEPT !.offer_type = "gold"],
      [B1 EXCEPT !.price = -1],
      [B1 EXCEPT !.delivery_time_in_days = 0],
      [B1 EXCEPT !.revisions = -1],
      [B1 EXCEPT !.features = <<"#1">>],
      [B1 EXCEPT !.offer_type = "standard"] }

\* valid lists, every single-fault variant of one, and lists of length 2 and 4
DetailLists ==
    {<<B1, S1, P1>>, <<P1, B1, S1>>}
    \cup {[<<B1, S1, P1>> EXCEPT ![1] = b] : b \in BadDetails}
    \cup {<<B1, S1>>, <<B1, S1, P1, B1>>, <<B1, S1, P1, [B1 EXCEPT !.offer_type = "gold"]>>}

OfferCreateInputs == {[title |-> "t1", description |-> "", details |-> ds] : ds \in DetailLists}

OfferCreate(u, data) ==
    /\ UNCHANGED <<users, staff, profile, orders, reviews, pending, now>>
    /\ IF ~is_authenticated(u)
       THEN resp' = Response("OfferCreate", u, 0, 401) /\ UNCHANGED <<offers, details, seq>>
       ELSE IF ~IsBusinessUser(u)
       THEN resp' = Response("OfferCreate", u, 0, 403) /\ UNCHANGED <<offers, details, seq>>
       ELSE IF ~((\A i \in DOMAIN data.details : OfferDetailSerializer_validate(data.details[i]))
                 /\ validate_details(data.details))
       THEN resp' = Response("OfferCreate", u, 0, 400) /\ UNCHANGED <<offers, details, seq>>
       ELSE IF ~UniqueTogether(data.details)
       THEN resp' = Response("OfferCreate", u, 0, 500) /\ UNCHANGED <<offers, details, seq>>
       ELSE /\ seq.offer < MaxOffers
            /\ LET oid == seq.offer + 1
                   n == Len(data.details)
               IN /\ offers' = (oid :> [owner |-> u, title |-> data.title, description |-> data.description]) @@ offers
                  /\ details' = [i \in (seq.detail + 1)..(seq.detail + n) |->
                                    [offer |-> oid] @@ data.details[i - seq.detail]] @@ details
                  /\ seq' = [seq EXCEPT !.offer = oid, !.detail = seq.detail + n]
                  /\ resp' = Response("OfferCreate", u, oid, 201)

\* ------------------------------------------------------------- offer patch
\* OfferDetailPartialSerializer: declared field bounds of one detail patch
OfferDetailPartialSerializer_validate(p) ==
    /\ Has(p, "offer_type") => p.offer_type \in OfferType
    /\ Has(p, "revisions") => p.revisions >= 0
    /\ Has(p, "delivery_time_in_days") => p.delivery_time_in_days >= 1
    /\ Has(p, "price") => p.price >= 0
    /\ Has(p, "features") => _ensure_features_is_str_list(p.features)

_update_offer_fields(instance, data) ==
    [f \in DOMAIN instance |-> IF f \in {"title", "description"} /\ Has(data, f) THEN data[f] ELSE instance[f]]

\* ids of the rows of offer oid with the given tier
DetailsOfType(ds, oid, t) == {i \in DOMAIN ds : ds[i].offer = oid /\ ds[i].offer_type = t}

_apply_detail_patch_whole_row(detail, payload) ==
    [f \in DOMAIN detail |->
        IF f \in DetailFields /\ Has(payload, f) THEN payload[f]
        ELSE IF f = "features" THEN <<>> ELSE detail[f]]

_apply_detail_patch(detail, payload) ==
    [f \in DOMAIN detail |-> IF f \in DetailFields /\ Has(payload, f) THEN payload[f] ELSE detail[f]]

\* rows holds the writes made so far, also when a payload is refused
RECURSIVE _apply_details_updates(_, _, _)
_apply_details_updates(ds, oid, ups) ==
    IF ups = <<>> THEN [ok |-> TRUE, rows |-> ds, err |-> ""]
    ELSE LET payload == Head(ups) IN
         IF ~Has(payload, "offer_type")
         THEN [ok |-> FALSE, rows |-> ds, err |-> "Each detail must include offer_type."]
         ELSE LET cand == DetailsOfType(ds, oid, payload.offer_type) IN
              IF cand = {} THEN [ok |-> FALSE, rows |-> ds, err |-> "Detail does not exist for this offer."]
              ELSE LET did == CHOOSE i \in cand : \A j \in cand : j <= i IN
                   IF Has(payload, "id") /\ payload.id # did
                   THEN [ok |-> FALSE, rows |-> ds, err |-> "Detail id mismatch."]
                   ELSE _apply_details_updates(
                            [ds EXCEPT ![did] = _apply_detail_patch(ds[did], payload)], oid, Tail(ups))

OfferPatchSerializer_update_no_rollback(oid, data) ==
    LET r == _apply_details_updates(details, oid, IF Has(data, "details") THEN data.details ELSE <<>>)
        o == [offers EXCEPT ![oid] = _update_offer_fields(offers[oid], data)]
    IN [ok |-> r.ok, err |-> r.err, offers |-> o, details |-> r.rows]

\* OfferPatchSerializer.update under @transaction.atomic: a refused payload
\* undoes the offer fields and the detail rows written before it
OfferPatchSerializer_update(oid, data) ==
    LET r == _apply_details_updates(details, oid, IF Has(data, "details") THEN data.details ELSE <<>>)
        o == [offers EXCEPT ![oid] = _update_offer_fields(offers[oid], data)]
    IN IF r.ok THEN [ok |-> TRUE, err |-> "", offers |-> o, details |-> r.rows]
       ELSE [ok |-> FALSE, err |-> r.err, offers |-> offers, details |-> details]

OfferPatch(u, oid, data) ==
    /\ UNCHANGED <<users, staff, profile, orders, reviews, seq, pending, now>>
    /\ IF ~is_authenticated(u)
       THEN resp' = Response("OfferPatch", u, oid, 401) /\ UNCHANGED <<offers, details>>
       ELSE IF oid \notin DOMAIN offers
       THEN resp' = Response("OfferPatch", u, oid, 404) /\ UNCHANGED <<offers, details>>
       ELSE IF ~IsOfferOwner(u, oid)
       THEN resp' = Response("OfferPatch", u, oid, 403) /\ UNCHANGED <<offers, details>>
       ELSE IF Has(data, "details") /\ ~\A i \in DOMAIN data.details : OfferDetailPartialSerializer_validate(data.details[i])
       THEN resp' = Response("OfferPatch", u, oid, 400) /\ UNCHANGED <<offers, details>>
       ELSE LET r == OfferPatchSerializer_update(oid, data) IN
            /\ offers' = r.offers
            /\ details' = r.details
            /\ resp' = IF r.ok THEN Response("OfferPatch", u, oid, 200)
                       ELSE Response("OfferPatch", u, oid, 400) @@ [detail |-> r.err]

\* --------------------------------------------- offer patch, step by step
\* first half of PATCH /offers/{id}/: permissions and get_object, which
\* loads the Offer row into the serializer's instance
OfferPatchLoad(u, oid, data) ==
    /\ UNCHANGED <<db, now>>
    /\ IF ~is_authenticated(u)
       THEN resp' = Response("OfferPatch", u, oid, 401) /\ UNCHANGED pending
       ELSE IF oid \notin DOMAIN offers
       THEN resp' = Response("OfferPatch", u, oid, 404) /\ UNCHANGED pending
       ELSE IF ~IsOfferOwner(u, oid)
       THEN resp' = Response("OfferPatch", u, oid, 403) /\ UNCHANGED pending
       ELSE /\ Len(pending) < MaxPending
            /\ pending' = Append(pending, [user |-> u, offer |-> oid, data |-> data, instance |-> offers[oid]])
            /\ resp' = Response("OfferLoaded", u, oid, 0)

\* second half: is_valid() and OfferPatchSerializer.update; instance.save()
\* of _update_offer_fields writes every column of the loaded instance, and
\* detail.save(update_fields=...) writes the patched columns only
OfferPatchSave(i) ==
    /\ i \in DOMAIN pending
    /\ pending[i].offer \in DOMAIN offers
    /\ UNCHANGED <<users, staff, profile, orders, reviews, seq, now>>
    /\ pending' = RemoveAt(pending, i)
    /\ LET p == pending[i]
           changed == DOMAIN p.data \cap {"title", "description"} # {}
           r == _apply_details_updates(details, p.offer, IF Has(p.data, "details") THEN p.data.details ELSE <<>>)
       IN IF Has(p.data, "details") /\ ~\A k \in DOMAIN p.data.details : OfferDetailPartialSerializer_validate(p.data.details[k])
          THEN resp' = Response("OfferPatch", p.user, p.offer, 400) /\ UNCHANGED <<offers, details>>
          ELSE IF ~r.ok
          THEN resp' = Response("OfferPatch", p.user, p.offer, 400) @@ [detail |-> r.err] /\ UNCHANGED <<offers, details>>
          ELSE /\ offers' = IF changed THEN [offers EXCEPT ![p.offer] = _update_offer_fields(p.instance, p.data)]
                            ELSE offers
               /\ details' = r.rows
               /\ resp' = Response("OfferPatch", p.user, p.offer, 200)

\* ------------------------------------------------------------ offer delete
\* Order.offer_detail is on_delete=PROTECT: rows that block the cascade
ProtectedOrders(oid) ==
    {o \in DOMAIN orders : orders[o].offer_detail \in DOMAIN details /\ details[orders[o].offer_detail].offer = oid}

Restrict(f, S) == [x \in S |-> f[x]]

OfferDelete(u, oid) ==
    /\ UNCHANGED <<users, staff, profile, orders, reviews, seq, pending, now>>
    /\ IF ~is_authenticated(u)
       THEN resp' = Response("OfferDelete", u, oid, 401) /\ UNCHANGED <<offers, details>>
       ELSE IF oid \notin DOMAIN offers
       THEN resp' = Response("OfferDelete", u, oid, 404) /\ UNCHANGED <<offers, details>>
       ELSE IF ~IsOfferOwner(u, oid)
       THEN resp' = Response("OfferDelete", u, oid, 403) /\ UNCHANGED <<offers, details>>
       ELSE IF ProtectedOrders(oid) # {}
       THEN resp' = Response("OfferDelete", u, oid, 500) /\ UNCHANGED <<offers, details>>
       ELSE /\ offers' = Restrict(offers, DOMAIN offers \ {oid})
            /\ details' = Restrict(details, {i \in DOMAIN details : details[i].offer # oid})
            /\ resp' = Response("OfferDelete", u, oid, 204)

\* ------------------------------------------------------------ order create
OrderCreateSerializer_create_unsnapped(u, did) ==
    LET od == details[did] IN
    [ customer_user |-> u,
      business_user |-> offers[od.offer].owner,
      offer_detail |-> did,
      title |-> offers[od.offer].title,
      revisions |-> 0,
      delivery_time_in_days |-> od.delivery_time_in_days,
      price |-> od.price,
      features |-> <<>>,
      offer_type |-> od.offer_type,
      status |-> "in_progress",
      created_at |-> now ]

\* OrderCreateSerializer.create: the row built from the resolved OfferDetail
OrderCreateSerializer_create(u, did) ==
    LET od == details[did] IN
    [ customer_user |-> u,
      business_user |-> offers[od.offer].owner,
      offer_detail |-> did,
      title |-> od.title,
      revisions |-> od.revisions,
      delivery_time_in_days |-> od.delivery_time_in_days,
      price |-> od.price,
      features |-> od.features,
      offer_type |-> od.offer_type,
      status |-> "in_progress",
      created_at |-> now ]

OrderCreateSerializer_validate_skipped(u, did) == TRUE

\* OrderCreateSerializer.validate: self-ordering is refused
OrderCreateSerializer_validate(u, did) == u # offers[details[did].offer].owner

DetailIds == 1..(3 * MaxOffers + 1)

OrderCreateInputs == {[offer_detail_id |-> d] : d \in DetailIds} \cup {[business_user |-> 1]}

OrderCreate(u, data) ==
    /\ UNCHANGED <<users, staff, profile, offers, details, reviews, pending, now>>
    /\ IF ~is_authenticated(u)
       THEN resp' = Response("OrderCreate", u, 0, 401) /\ UNCHANGED <<orders, seq>>
       ELSE IF ~IsCustomerUser(u)
       THEN resp' = Response("OrderCreate", u, 0, 403) /\ UNCHANGED <<orders, seq>>
       ELSE IF ~Has(data, "offer_detail_id")
       THEN resp' = Response("OrderCreate", u, 0, 400) /\ UNCHANGED <<orders, seq>>
       ELSE IF data.offer_detail_id \notin DOMAIN details
       THEN resp' = Response("OrderCreate", u, 0, 404) /\ UNCHANGED <<orders, seq>>
       ELSE IF ~OrderCreateSerializer_validate(u, data.offer_detail_id)
       THEN resp' = Response("OrderCreate", u, 0, 403) /\ UNCHANGED <<orders, seq>>
       ELSE /\ seq.order < MaxOrders
            /\ LET id == seq.order + 1 IN
               /\ orders' = (id :> OrderCreateSerializer_create(u, data.offer_detail_id)) @@ orders
               /\ seq' = [seq EXCEPT !.order = id]
               /\ resp' = Response("OrderCreate", u, id, 201)

\* OrderOutputSerializer: the representation of a stored order
OrderOutputFields ==
    {"customer_user", "business_user", "title", "revisions", "delivery_time_in_days",
     "price", "features", "offer_type", "status"}

OrderOutputSerializer_live(id) ==
    [f \in OrderOutputFields |->
        IF f \in DetailFields /\ orders[id].offer_detail \in DOMAIN details
        THEN details[orders[id].offer_detail][f] ELSE orders[id][f]]

OrderOutputSerializer(id) == [f \in OrderOutputFields |-> orders[id][f]]

\* ------------------------------------------------------------- order patch
_validate_patch_only_status_lenient(data) == TRUE

_validate_patch_only_status(data) == DOMAIN data \subseteq {"status"}

OrderStatusPatchSerializer_validate_any(data) == TRUE

\* OrderStatusPatchSerializer: status is a choice field of Order.Status
OrderStatusPatchSerializer_validate(data) == Has(data, "status") => data.status \in Status

OrderStatusPatchSerializer_update(instance, data) ==
    [f \in DOMAIN instance |-> IF f = "status" /\ Has(data, f) THEN data[f] ELSE instance[f]]

OrderPatch(u, id, data) ==
    /\ UNCHANGED <<users, staff, profile, offers, details, reviews, seq, pending, now>>
    /\ IF ~is_authenticated(u)
       THEN resp' = Response("OrderPatch", u, id, 401) /\ UNCHANGED orders
       ELSE IF ~_validate_patch_only_status(data)
       THEN resp' = Response("OrderPatch", u, id, 400) @@ [detail |-> "Only 'status' may be updated."] /\ UNCHANGED orders
       ELSE IF id \notin DOMAIN orders
       THEN resp' = Response("OrderPatch", u, id, 404) /\ UNCHANGED orders
       ELSE IF ~IsOrderBusinessUser(u, id)
       THEN resp' = Response("OrderPatch", u, id, 403) /\ UNCHANGED orders
       ELSE IF ~OrderStatusPatchSerializer_validate(data)
       THEN resp' = Response("OrderPatch", u, id, 400) /\ UNCHANGED orders
       ELSE /\ orders' = [orders EXCEPT ![id] = OrderStatusPatchSerializer_update(orders[id], data)]
            /\ resp' = Response("OrderPatch", u, id, 200)

\* --------------------------------------------------------------- order put
\* PUT is served by UpdateModelMixin.update with OrderOutputSerializer
OrderOutputWritable ==
    {"customer_user", "business_user", "title", "revisions", "delivery_time_in_days",
     "price", "features", "offer_type", "status"}

OrderOutputRequired ==
    {"customer_user", "business_user", "title", "revisions", "delivery_time_in_days", "price", "offer_type"}

OrderOutputSerializer_validate(data) ==
    /\ OrderOutputRequired \subseteq DOMAIN data
    /\ data.customer_user \in users
    /\ data.business_user \in users
    /\ data.revisions >= 0
    /\ data.delivery_time_in_days >= 1
    /\ data.price >= 0
    /\ data.offer_type \in OfferType
    /\ Has(data, "status") => data.status \in Status

OrderOutputSerializer_update(instance, data) ==
    [f \in DOMAIN instance |-> IF f \in OrderOutputWritable /\ Has(data, f) THEN data[f] ELSE instance[f]]

OrderPut(u, id, data) ==
    /\ UNCHANGED <<users, staff, profile, offers, details, reviews, seq, pending, now>>
    /\ IF ~is_authenticated(u)
       THEN resp' = Response("OrderPut", u, id, 401) /\ UNCHANGED orders
       ELSE IF id \notin DOMAIN orders
       THEN resp' = Response("OrderPut", u, id, 404) /\ UNCHANGED orders
       ELSE IF ~OrderOutputSerializer_validate(data)
       THEN resp' = Response("OrderPut", u, id, 400) /\ UNCHANGED orders
       ELSE /\ orders' = [orders EXCEPT ![id] = OrderOutputSerializer_update(orders[id], data)]
            /\ resp' = Response("OrderPut", u, id, 200)

\* ---------------------------------------------------- order get and delete
OrderRetrieve(u, id) ==
    /\ UNCHANGED <<db, pending, now>>
    /\ IF ~is_authenticated(u)
       THEN resp' = Response("OrderRetrieve", u, id, 401)
       ELSE IF id \notin DOMAIN orders
       THEN resp' = Response("OrderRetrieve", u, id, 404)
       ELSE resp' = Response("OrderRetrieve", u, id, 200) @@ [body |-> OrderOutputSerializer(id)]

\* order_by("-created_at", "-id"): a precedes b in the result
OrderPrecedes(a, b) ==
    \/ orders[a].created_at > orders[b].created_at
    \/ orders[a].created_at = orders[b].created_at /\ a > b

RECURSIVE order_by(_)
order_by(S) ==
    IF S = {} THEN <<>>
    ELSE LET first == CHOOSE a \in S : \A b \in S \ {a} : OrderPrecedes(a, b)
         IN <<first>> \o order_by(S \ {first})

_user_orders_queryset_customer_only(u) ==
    IF ~is_authenticated(u) THEN <<>>
    ELSE order_by({o \in DOMAIN orders : orders[o].customer_user = u})

\* the ids of the rows the list endpoint serializes, in response order
_user_orders_queryset(u) ==
    IF ~is_authenticated(u) THEN <<>>
    ELSE order_by({o \in DOMAIN orders : orders[o].customer_user = u \/ orders[o].business_user = u})

OrderList(u) ==
    /\ UNCHANGED <<db, pending, now>>
    /\ IF ~is_authenticated(u)
       THEN resp' = Response("OrderList", u, 0, 401)
       ELSE resp' = Response("OrderList", u, 0, 200) @@ [body |-> _user_orders_queryset(u)]

\* the wall clock read by auto_now_add advances between requests
Tick ==
    /\ now < MaxClock
    /\ now' = now + 1
    /\ UNCHANGED <<db, pending, resp>>

IsAdminStaff_any_authenticated(u) == is_authenticated(u)

IsAdminStaff(u) == is_authenticated(u) /\ u \in staff

OrderDelete(u, id) ==
    /\ UNCHANGED <<users, staff, profile, offers, details, reviews, seq, pending, now>>
    /\ IF ~is_authenticated(u)
       THEN resp' = Response("OrderDelete", u, id, 401) /\ UNCHANGED orders
       ELSE IF ~IsAdminStaff(u)
       THEN resp' = Response("OrderDelete", u, id, 403) /\ UNCHANGED orders
       ELSE IF id \notin DOMAIN orders
       THEN resp' = Response("OrderDelete", u, id, 404) /\ UNCHANGED orders
       ELSE /\ orders' = Restrict(orders, DOMAIN orders \ {id})
            /\ resp' = Response("OrderDelete", u, id, 204)

\* ----------------------------------------------------------- profile patch
ProfileView_get_object_lookup_first(u, pk) ==
    IF pk \notin DOMAIN profile THEN [code |-> 404, detail |-> "Not found.", profile |-> profile]
    ELSE IF u # pk
    THEN [code |-> 403, detail |-> "You are only allowed to update your own profile.", profile |-> profile]
    ELSE [code |-> 0, detail |-> "", profile |-> profile]

\* ProfileView.get_object on PATCH: the path id is compared with the caller
\* before any lookup; a missing profile of the owner is created
ProfileView_get_object(u, pk) ==
    IF u # pk
    THEN [code |-> 403, detail |-> "You are only allowed to update your own profile.", profile |-> profile]
    ELSE [code |-> 0, detail |-> "",
          profile |-> IF pk \in DOMAIN profile THEN profile ELSE (pk :> [type |-> ""]) @@ profile]

\* a profile created by get_object stays when the payload is refused
ProfilePatch(u, pk, data) ==
    /\ UNCHANGED <<users, staff, offers, details, orders, reviews, seq, pending, now>>
    /\ IF ~is_authenticated(u)
       THEN resp' = Response("ProfilePatch", u, pk, 401) /\ UNCHANGED profile
       ELSE LET g == ProfileView_get_object(u, pk) IN
            IF g.code # 0
            THEN resp' = Response("ProfilePatch", u, pk, g.code) @@ [detail |-> g.detail] /\ profile' = g.profile
            ELSE LET obj == g.profile[pk] IN
                 IF Has(data, "type") /\ data.type \notin USER_TYPES \cup {""}
                 THEN /\ profile' = g.profile
                      /\ resp' = Response("ProfilePatch", u, pk, 400)
                 ELSE /\ profile' = [g.profile EXCEPT ![pk] = [f \in DOMAIN obj |-> IF Has(data, f) THEN data[f] ELSE obj[f]]]
                      /\ resp' = Response("ProfilePatch", u, pk, 200)

\* ------------------------------------------- profile patch, step by step
\* Profile.user is a OneToOneField: the insert of a row for u is admitted
\* by its unique index
Profile_user_unique(u) == u \notin DOMAIN profile

\* first half of PATCH /profile/{pk}/: permissions and the lookup
\* self.queryset.get(user_id=...) of get_object
ProfilePatchLookup(u, pk, data) ==
    /\ UNCHANGED <<db, now>>
    /\ IF ~is_authenticated(u)
       THEN resp' = Response("ProfilePatch", u, pk, 401) /\ UNCHANGED pending
       ELSE IF u # pk
       THEN /\ resp' = Response("ProfilePatch", u, pk, 403)
                          @@ [detail |-> "You are only allowed to update your own profile."]
            /\ UNCHANGED pending
       ELSE /\ Len(pending) < MaxPending
            /\ pending' = Append(pending, [user |-> u, data |-> data, found |-> pk \in DOMAIN profile])
            /\ resp' = Response("ProfileLookedUp", u, pk, 0)

\* second half: Profile.objects.create when the lookup found no row, then
\* is_valid() and serializer.save(); an IntegrityError of the create is not handled
ProfilePatchSave(i) ==
    /\ i \in DOMAIN pending
    /\ UNCHANGED <<users, staff, offers, details, orders, reviews, seq, now>>
    /\ pending' = RemoveAt(pending, i)
    /\ LET p == pending[i]
           u == p.user
       IN IF ~p.found /\ ~Profile_user_unique(u)
          THEN resp' = Response("ProfilePatch", u, u, 500) /\ UNCHANGED profile
          ELSE LET table == IF p.found THEN profile ELSE (u :> [type |-> ""]) @@ profile
                   obj == table[u]
               IN IF Has(p.data, "type") /\ p.data.type \notin USER_TYPES \cup {""}
                  THEN /\ profile' = table
                       /\ resp' = Response("ProfilePatch", u, u, 400)
                  ELSE /\ profile' = [table EXCEPT ![u] = [f \in DOMAIN obj |-> IF Has(p.data, f) THEN p.data[f] ELSE obj[f]]]
                       /\ resp' = Response("ProfilePatch", u, u, 200)

\* ----------------------------------------------------------------- reviews
rating_unbounded(value) == TRUE

\* rating: min_value=1, max_value=5 (MinValueValidator, MaxValueValidator)
rating_in_bounds(value) == value >= 1 /\ value <= 5

\* field validation, validate_business_user and the checks of validate() up to the duplicate lookup
ReviewCreateSerializer_fields(u, data) ==
    /\ {"business_user", "rating"} \subseteq DOMAIN data
    /\ data.business_user \in users
    /\ ProfileTypeOf(data.business_user) = "business"
    /\ rating_in_bounds(data.rating)
    /\ data.business_user # u

ReviewExists(b, r) == \E i \in DOMAIN reviews : reviews[i].business_user = b /\ reviews[i].reviewer = r

unique_review_unenforced(b, r) == TRUE

\* Review.Meta.constraints: the insert of (b, r) is admitted by the UniqueConstraint
unique_review_per_business_and_reviewer(b, r) == ~ReviewExists(b, r)

ReviewCreateInputs ==
    {[business_user |-> b, rating |-> r] : b \in UserIds, r \in {0, 4, 6}}
    \cup {[business_user |-> b, rating |-> 4, reviewer |-> b] : b \in UserIds}

\* first half of POST /reviews/: permissions and is_valid(), ending with the exists() lookup
ReviewCreateValidate(u, data) ==
    /\ UNCHANGED <<db, now>>
    /\ IF ~is_authenticated(u)
       THEN resp' = Response("ReviewCreate", u, 0, 401) /\ UNCHANGED pending
       ELSE IF ProfileTypeOf(u) # "customer"
       THEN resp' = Response("ReviewCreate", u, 0, 403) /\ UNCHANGED pending
       ELSE IF ~ReviewCreateSerializer_fields(u, data)
       THEN resp' = Response("ReviewCreate", u, 0, 400) /\ UNCHANGED pending
       ELSE IF ReviewExists(data.business_user, u)
       THEN resp' = Response("ReviewCreate", u, 0, 400) /\ UNCHANGED pending
       ELSE /\ Len(pending) < MaxPending
            /\ seq.review + Len(pending) < MaxReviews
            /\ pending' = Append(pending, [reviewer |-> u, business_user |-> data.business_user, rating |-> data.rating])
            /\ resp' = Response("ReviewValidated", u, 0, 0)

\* second half: serializer.save() -> Review.objects.create under the UniqueConstraint
ReviewCreateSave(i) ==
    /\ i \in DOMAIN pending
    /\ UNCHANGED <<users, staff, profile, offers, details, orders, now>>
    /\ pending' = RemoveAt(pending, i)
    /\ LET p == pending[i] IN
       IF ~unique_review_per_business_and_reviewer(p.business_user, p.reviewer)
       THEN /\ resp' = Response("ReviewCreate", p.reviewer, 0, 500)
            /\ UNCHANGED <<reviews, seq>>
       ELSE LET id == seq.review + 1 IN
            /\ reviews' = (id :> [business_user |-> p.business_user, reviewer |-> p.reviewer,
                                  rating |-> p.rating, description |-> ""]) @@ reviews
            /\ seq' = [seq EXCEPT !.review = id]
            /\ resp' = Response("ReviewCreate", p.reviewer, id, 201)

ReviewIds == 1..(MaxReviews + 1)

IsReviewOwner(u, id) == is_authenticated(u) /\ reviews[id].reviewer = u

_validate_patch_fields_lenient(data) == TRUE

_validate_patch_fields(data) == DOMAIN data \subseteq {"rating", "description"}

\* ReviewPatchSerializer: Meta.fields = ["rating", "description"]
ReviewPatchSerializer_update(instance, data) ==
    [f \in DOMAIN instance |-> IF f \in {"rating", "description"} /\ Has(data, f) THEN data[f] ELSE instance[f]]

ReviewPatchInputs ==
    {[rating |-> r] : r \in {0, 2, 6}}
    \cup {[reviewer |-> 1, rating |-> 2], [business_user |-> 1, description |-> "x"]}

ReviewPatch(u, id, data) ==
    /\ UNCHANGED <<users, staff, profile, offers, details, orders, seq, pending, now>>
    /\ IF ~is_authenticated(u)
       THEN resp' = Response("ReviewPatch", u, id, 401) /\ UNCHANGED reviews
       ELSE IF ~_validate_patch_fields(data)
       THEN resp' = Response("ReviewPatch", u, id, 400) @@ [detail |-> "Only 'rating' and 'description' may be updated."] /\ UNCHANGED reviews
       ELSE IF id \notin DOMAIN reviews
       THEN resp' = Response("ReviewPatch", u, id, 404) /\ UNCHANGED reviews
       ELSE IF ~IsReviewOwner(u, id)
       THEN resp' = Response("ReviewPatch", u, id, 403) /\ UNCHANGED reviews
       ELSE IF Has(data, "rating") /\ ~rating_in_bounds(data.rating)
       THEN resp' = Response("ReviewPatch", u, id, 400) /\ UNCHANGED reviews
       ELSE /\ reviews' = [reviews EXCEPT ![id] = ReviewPatchSerializer_update(reviews[id], data)]
            /\ resp' = Response("ReviewPatch", u, id, 200)

ReviewDelete(u, id) ==
    /\ UNCHANGED <<users, staff, profile, offers, details, orders, seq, pending, now>>
    /\ IF ~is_authenticated(u)
       THEN resp' = Response("ReviewDelete", u, id, 401) /\ UNCHANGED reviews
       ELSE IF id \notin DOMAIN reviews
       THEN resp' = Response("ReviewDelete", u, id, 404) /\ UNCHANGED reviews
       ELSE IF ~IsReviewOwner(u, id)
       THEN resp' = Response("ReviewDelete", u, id, 403) /\ UNCHANGED reviews
       ELSE /\ reviews' = Restrict(reviews, DOMAIN reviews \ {id})
            /\ resp' = Response("ReviewDelete", u, id, 204)

\* ------------------------------------------------------------- offer reads
\* NULL of SQL and None of Python; stored prices and times are never negative
None == -1

\* SQL MIN over the joined rows of one group
Min(S) == IF S = {} THEN None ELSE CHOOSE m \in S : \A x \in S : m <= x

\* related_name="details": the rows of offer oid
Offer_details(oid) == {i \in DOMAIN details : details[i].offer = oid}

_annotate_base_first_row(oid) ==
    LET rows == Offer_details(oid)
        first == IF rows = {} THEN {} ELSE {CHOOSE i \in rows : \A j \in rows : i <= j}
    IN [ _min_price |-> Min({details[i].price : i \in first}),
         _min_delivery |-> Min({details[i].delivery_time_in_days : i \in first}) ]

\* annotate(_min_price=Min("details__price"), _min_delivery=Min("details__delivery_time_in_days"))
_annotate_base(oid) ==
    [ _min_price |-> Min({details[i].price : i \in Offer_details(oid)}),
      _min_delivery |-> Min({details[i].delivery_time_in_days : i \in Offer_details(oid)}) ]

\* prices are counted in hundredths, the quantum of DecimalField(decimal_places=2);
\* a float is counted in units of 2^-FloatFractionBits
FloatFractionBits == 20

\* float(Decimal): the binary fraction nearest to v hundredths
float(v) == (v * 2^FloatFractionBits + 50) \div 100

int(v) == v

\* caster names the conversion applied to a value that is not None
_extract_annotated(v, caster) ==
    IF v = None THEN None
    ELSE IF caster = "float" THEN float(v) ELSE int(v)

\* the computed fields of OfferListSerializer and OfferDetailViewSerializer
OfferListSerializer(oid) ==
    [ id |-> oid,
      user |-> offers[oid].owner,
      title |-> offers[oid].title,
      description |-> offers[oid].description,
      details |-> Offer_details(oid),
      min_price |-> _extract_annotated(_annotate_base(oid)._min_price, "float"),
      min_delivery_time |-> _extract_annotated(_annotate_base(oid)._min_delivery, "int") ]

\* GET /offers/{id}/
OfferRetrieve(u, oid) ==
    /\ UNCHANGED <<db, pending, now>>
    /\ IF ~is_authenticated(u)
       THEN resp' = Response("OfferRetrieve", u, oid, 401)
       ELSE IF oid \notin DOMAIN offers
       THEN resp' = Response("OfferRetrieve", u, oid, 404)
       ELSE resp' = Response("OfferRetrieve", u, oid, 200) @@ [body |-> OfferListSerializer(oid)]

\* query strings: the largest number written in one
MaxQuery == 9

\* str.isdigit and int() on the decimal numerals up to MaxQuery
isdigit(s) == \E n \in 0..MaxQuery : ToString(n) = s

int_of(s) == CHOOSE n \in 0..MaxQuery : ToString(n) = s

\* the numeral of c hundredths with two decimal places
DecimalText(c) == ToString(c \div 100) \o "." \o ToString((c % 100) \div 10) \o ToString(c % 10)

\* Decimal(s) in hundredths: whole numerals and two-place numerals parse,
\* anything else raises InvalidOperation (None)
Decimal(s) ==
    IF isdigit(s) THEN 100 * int_of(s)
    ELSE IF \E c \in 0..MaxQuery : DecimalText(c) = s THEN CHOOSE c \in 0..MaxQuery : DecimalText(c) = s
    ELSE None

\* title__icontains / description__icontains on lower-case text
icontains(text, s) == \E i \in 1..(Len(text) + 1), j \in 0..Len(text) : SubSeq(text, i, j) = s

\* the first parameter _apply_filters and _apply_ordering refuse, "" if none
_apply_filters_error(params) ==
    IF Has(params, "creator_id") /\ ~isdigit(params.creator_id) THEN "creator_id"
    ELSE IF Has(params, "min_price") /\ Decimal(params.min_price) = None THEN "min_price"
    ELSE IF Has(params, "max_delivery_time") /\ ~isdigit(params.max_delivery_time) THEN "max_delivery_time"
    ELSE IF Has(params, "ordering") /\ params.ordering # ""
            /\ params.ordering \notin {"updated_at", "-updated_at", "min_price", "-min_price"} THEN "ordering"
    ELSE ""

_apply_filters_min_price_only(qs, params) ==
    {o \in qs :
        Has(params, "min_price") =>
            (_annotate_base(o)._min_price # None /\ _annotate_base(o)._min_price >= Decimal(params.min_price))}

\* the offers left by the chained qs.filter(...) calls
_apply_filters(qs, params) ==
    {o \in qs :
        /\ Has(params, "creator_id") => offers[o].owner = int_of(params.creator_id)
        /\ Has(params, "min_price") =>
              (_annotate_base(o)._min_price # None /\ _annotate_base(o)._min_price >= Decimal(params.min_price))
        /\ Has(params, "max_delivery_time") =>
              (_annotate_base(o)._min_delivery # None
                  /\ _annotate_base(o)._min_delivery <= int_of(params.max_delivery_time))
        /\ (Has(params, "search") /\ params.search # "") =>
              (icontains(offers[o].title, params.search) \/ icontains(offers[o].description, params.search))}

\* GET /offers/: the serialized rows of the filtered queryset, over all pages
OfferList(u, params) ==
    /\ UNCHANGED <<db, pending, now>>
    /\ IF _apply_filters_error(params) # ""
       THEN resp' = Response("OfferList", u, 0, 400) @@ [query |-> params, detail |-> _apply_filters_error(params)]
       ELSE resp' = Response("OfferList", u, 0, 200)
                       @@ [query |-> params,
                           body |-> {OfferListSerializer(o) : o \in _apply_filters(DOMAIN offers, params)}]

\* ------------------------------------------------------------ order counts
\* _business_user_or_404: TRUE when the account exists and its profile is a business
_business_user_or_404(business_user_id) ==
    /\ business_user_id \in users
    /\ ProfileTypeOf(business_user_id) = "business"

_count_orders_any_status(business_user_id, status_value) ==
    Cardinality({o \in DOMAIN orders : orders[o].business_user = business_user_id})

\* Order.objects.filter(business_user_id=..., status=...).count()
_count_orders(business_user_id, status_value) ==
    Cardinality({o \in DOMAIN orders :
                    orders[o].business_user = business_user_id /\ orders[o].status = status_value})

OrderCountGet(op, key, status_value, u, business_user_id) ==
    /\ UNCHANGED <<db, pending, now>>
    /\ IF ~is_authenticated(u)
       THEN resp' = Response(op, u, business_user_id, 401)
       ELSE IF ~_business_user_or_404(business_user_id)
       THEN resp' = Response(op, u, business_user_id, 404) @@ [detail |-> "Business user not found."]
       ELSE resp' = Response(op, u, business_user_id, 200)
                       @@ [body |-> [key |-> key, count |-> _count_orders(business_user_id, status_value)]]

\* GET /order-count/{business_user_id}/
OrderCountAPIView_get(u, business_user_id) ==
    OrderCountGet("OrderCount", "order_count", "in_progress", u, business_user_id)

\* GET /completed-order-count/{business_user_id}/
CompletedOrderCountAPIView_get(u, business_user_id) ==
    OrderCountGet("CompletedOrderCount", "completed_order_count", "completed", u, business_user_id)

\* --------------------------------------------------------------- base info
RECURSIVE SumRatings(_)
SumRatings(S) ==
    IF S = {} THEN 0
    ELSE LET i == CHOOSE j \in S : TRUE IN reviews[i].rating + SumRatings(S \ {i})

round_1_truncating(sum, n) == (10 * sum) \div n

\* round(float(sum / n), 1) in tenths: the nearest tenth, a tie going to the
\* even one; for n < 20 every tie is a multiple of 1/4, which a float holds exactly
round_1(sum, n) ==
    LET q == (10 * sum) \div n
        r == (10 * sum) % n
    IN IF 2 * r < n THEN q
       ELSE IF 2 * r > n THEN q + 1
       ELSE IF q % 2 = 0 THEN q ELSE q + 1

\* GET /base-info/: no authentication, the aggregates of the three tables;
\* average_rating is given in tenths
BaseInfoAPIView_get ==
    /\ UNCHANGED <<db, pending, now>>
    /\ LET n == Cardinality(DOMAIN reviews)
           sum == SumRatings(DOMAIN reviews)
       IN resp' = Response("BaseInfo", Anon, 0, 200)
                     @@ [body |->
                           [ review_count |-> n,
                             average_rating |-> IF n = 0 \/ sum = 0 THEN 0 ELSE round_1(sum, n),
                             business_profile_count |->
                                 Cardinality({u \in DOMAIN profile : profile[u].type = "business"}),
                             offer_count |-> Cardinality(DOMAIN offers) ]]

\* -------------------------------------------------------------------- init
Init ==
    /\ users = {}
    /\ staff = {}
    /\ profile = <<>>
    /\ offers = <<>>
    /\ details = <<>>
    /\ orders = <<>>
    /\ reviews = <<>>
    /\ seq = [offer |-> 0, detail |-> 0, order |-> 0, review |-> 0]
    /\ pending = <<>>
    /\ resp = Response("none", Anon, 0, 0)
    /\ now = 0

\* the payload is not read when the request is refused before validation
BodyFor(allowed, inputs) == IF allowed THEN inputs ELSE {CHOOSE d \in inputs : TRUE}

MayPatchOffer(u, oid) == oid \in DOMAIN offers /\ IsOfferOwner(u, oid)

\* --------------------------------------------------- catalog specification
CatalogPatchInputs ==
    { [details |-> <<[offer_type |-> "basic", title |-> "c", price |-> 5]>>],
      [details |-> <<[offer_type |-> "premium", id |-> 3, price |-> 7]>>],
      [title |-> "t2", details |-> <<[offer_type |-> "standard", price |-> 5], [title |-> "c"]>>],
      [details |-> <<[offer_type |-> "gold", title |-> "c"]>>],
      [description |-> "d", details |-> <<[offer_type |-> "standard", title |-> "c"],
                                          [offer_type |-> "premium", id |-> 2, revisions |-> 3]>>] }

NextCatalog ==
    \/ \E t \in RegistrationTypes : Registration(t)
    \/ \E u \in Principals : \E data \in BodyFor(IsBusinessUser(u), OfferCreateInputs) : OfferCreate(u, data)
    \/ \E u \in Principals, oid \in OfferIds : \E data \in BodyFor(MayPatchOffer(u, oid), CatalogPatchInputs) :
          OfferPatch(u, oid, data)
    \/ \E u \in Principals, oid \in OfferIds : OfferDelete(u, oid)

SpecCatalog == Init /\ [][NextCatalog]_vars

\* ------------------------------------------------ offer delete with orders
LedgerCreateInputs == {[title |-> "t1", description |-> "", details |-> <<B1, S1, P1>>]}

LedgerOrderInputs == {[offer_detail_id |-> d] : d \in {1, 3 * MaxOffers + 1}}

NextDelete ==
    \/ \E t \in USER_TYPES : Registration(t)
    \/ \E u \in Principals, data \in LedgerCreateInputs : OfferCreate(u, data)
    \/ \E u \in Principals : \E data \in BodyFor(IsCustomerUser(u), OrderCreateInputs) : OrderCreate(u, data)
    \/ \E u \in Principals, oid \in OfferIds : OfferDelete(u, oid)

SpecDelete == Init /\ [][NextDelete]_vars

\* -------------------------------------------------- snapshot specification
LedgerPatchInputs ==
    { [title |-> "t2",
       details |-> <<[offer_type |-> "basic", title |-> "c", revisions |-> 2, delivery_time_in_days |-> 3,
                      price |-> 5, features |-> <<"y">>]>>] }

NextSnapshot ==
    \/ \E t \in USER_TYPES : Registration(t)
    \/ \E u \in UserIds : \E data \in BodyFor(is_authenticated(u), {[type |-> "customer"]}) : ProfilePatch(u, u, data)
    \/ \E u \in Principals, data \in LedgerCreateInputs : OfferCreate(u, data)
    \/ \E u \in Principals, oid \in OfferIds : \E data \in BodyFor(MayPatchOffer(u, oid), LedgerPatchInputs) :
          OfferPatch(u, oid, data)
    \/ \E u \in Principals : \E data \in BodyFor(IsCustomerUser(u), LedgerOrderInputs) : OrderCreate(u, data)

SpecSnapshot == Init /\ [][NextSnapshot]_vars

\* ---------------------------------------------------- orders specification
LedgerStatusInputs ==
    {[status |-> st] : st \in {"completed", "foobar"}}
    \cup {[status |-> "completed", title |-> "hax"]}

LedgerPutInputs ==
    { [customer_user |-> 1, business_user |-> 1, title |-> "hax", revisions |-> 0,
       delivery_time_in_days |-> 1, price |-> 9, offer_type |-> "premium"],
      [title |-> "hax"] }

LedgerProfileInputs == {[type |-> t] : t \in {"customer", ""}}

NextOrders ==
    \/ \E t \in USER_TYPES : Registration(t)
    \/ \E u \in UserIds : \E data \in BodyFor(is_authenticated(u), LedgerProfileInputs) : ProfilePatch(u, u, data)
    \/ \E u \in Principals, data \in LedgerCreateInputs : OfferCreate(u, data)
    \/ \E u \in Principals : \E data \in BodyFor(IsCustomerUser(u), LedgerOrderInputs) : OrderCreate(u, data)
    \/ \E u \in Principals, id \in OrderIds : \E data \in BodyFor(is_authenticated(u), LedgerStatusInputs) :
          OrderPatch(u, id, data)

SpecOrders == Init /\ [][NextOrders]_vars

\* ------------------------------------------- order endpoints specification
NextOrderEndpoints ==
    \/ \E t \in USER_TYPES : Registration(t)
    \/ CreateSuperuser
    \/ \E u \in Principals, data \in LedgerCreateInputs : OfferCreate(u, data)
    \/ \E u \in Principals : \E data \in BodyFor(IsCustomerUser(u), LedgerOrderInputs) : OrderCreate(u, data)
    \/ \E u \in Principals, id \in OrderIds : \E data \in BodyFor(is_authenticated(u), LedgerStatusInputs) :
          OrderPatch(u, id, data)
    \/ \E u \in Principals, id \in OrderIds :
          \E data \in BodyFor(is_authenticated(u) /\ id \in DOMAIN orders, LedgerPutInputs) : OrderPut(u, id, data)
    \/ \E u \in Principals, id \in OrderIds : OrderRetrieve(u, id)
    \/ \E u \in Principals : OrderList(u)
    \/ \E u \in Principals, id \in OrderIds : OrderDelete(u, id)

SpecOrderEndpoints == Init /\ [][NextOrderEndpoints]_vars

\* ---------------------------------------------- order delete specification
NextOrderDelete ==
    \/ \E t \in USER_TYPES : Registration(t)
    \/ \E u \in UserIds : UserAdmin_change(u)
    \/ \E u \in Principals, data \in LedgerCreateInputs : OfferCreate(u, data)
    \/ \E u \in Principals : \E data \in BodyFor(IsCustomerUser(u), LedgerOrderInputs) : OrderCreate(u, data)
    \/ \E u \in Principals, id \in OrderIds : OrderDelete(u, id)

SpecOrderDelete == Init /\ [][NextOrderDelete]_vars

\* ------------------------------------------------ order list specification
\* the two seeded guest accounts: a customer (1) and a business (2) that
\* published one offer
GUESTS == (1 :> [type |-> "customer"]) @@ (2 :> [type |-> "business"])

\* rows of the order table between the two accounts, stamped up to time t
ListedRows(t) ==
    {[OrderCreateSerializer_create(c, 1) EXCEPT !.business_user = b, !.created_at = at] :
        c \in DOMAIN GUESTS, b \in DOMAIN GUESTS, at \in 0..t}

InitOrderList ==
    /\ users = DOMAIN GUESTS
    /\ staff = {}
    /\ profile = GUESTS
    /\ offers = (1 :> [owner |-> 2, title |-> "t1", description |-> ""])
    /\ details = [i \in 1..3 |-> [offer |-> 1] @@ <<B1, S1, P1>>[i]]
    /\ now \in 0..MaxClock
    /\ \E n \in 0..MaxListed :
          /\ orders \in [1..n -> ListedRows(now)]
          /\ seq = [offer |-> 1, detail |-> 3, order |-> n, review |-> 0]
    /\ reviews = <<>>
    /\ pending = <<>>
    /\ resp = Response("none", Anon, 0, 0)

NextOrderList ==
    \/ Tick
    \/ \E u \in Principals : \E data \in BodyFor(IsCustomerUser(u), LedgerOrderInputs) : OrderCreate(u, data)
    \/ \E u \in Principals : OrderList(u)

SpecOrderList == InitOrderList /\ [][NextOrderList]_vars

\* --------------------------------------------------- reviews specification
NextReviews ==
    \/ \E t \in USER_TYPES : Registration(t)
    \/ \E u \in Principals : \E data \in BodyFor(ProfileTypeOf(u) = "customer", ReviewCreateInputs) :
          ReviewCreateValidate(u, data)
    \/ \E i \in 1..MaxPending : ReviewCreateSave(i)
    \/ \E u \in Principals, id \in ReviewIds : \E data \in BodyFor(is_authenticated(u), ReviewPatchInputs) :
          ReviewPatch(u, id, data)
    \/ \E u \in Principals, id \in ReviewIds : ReviewDelete(u, id)

SpecReviews == Init /\ [][NextReviews]_vars

\* ------------------------------------------------ owner gate specification
GatePatchInputs == {[title |-> "t2", details |-> <<[offer_type |-> "basic", price |-> 5]>>]}

GateReviewInputs == {[business_user |-> b, rating |-> 4] : b \in UserIds}

GateReviewPatchInputs == {[rating |-> 2], [rating |-> 2, reviewer |-> 2]}

\* the database after seed_guest_users: the two guest accounts, nothing else
InitGuests ==
    /\ users = DOMAIN GUESTS
    /\ staff = {}
    /\ profile = GUESTS
    /\ offers = <<>>
    /\ details = <<>>
    /\ orders = <<>>
    /\ reviews = <<>>
    /\ seq = [offer |-> 0, detail |-> 0, order |-> 0, review |-> 0]
    /\ pending = <<>>
    /\ resp = Response("none", Anon, 0, 0)
    /\ now = 0

NextOwnerGates ==
    \/ \E u \in Principals, data \in LedgerCreateInputs : OfferCreate(u, data)
    \/ \E u \in Principals, oid \in OfferIds, data \in GatePatchInputs : OfferPatch(u, oid, data)
    \/ \E u \in Principals, oid \in OfferIds : OfferDelete(u, oid)
    \/ \E u \in Principals : \E data \in BodyFor(ProfileTypeOf(u) = "customer", GateReviewInputs) :
          ReviewCreateValidate(u, data)
    \/ \E i \in 1..MaxPending : ReviewCreateSave(i)
    \/ \E u \in Principals, id \in ReviewIds, data \in GateReviewPatchInputs : ReviewPatch(u, id, data)
    \/ \E u \in Principals, id \in ReviewIds : ReviewDelete(u, id)

SpecOwnerGates == InitGuests /\ [][NextOwnerGates]_vars

\* --------------------------------------------- creation gate specification
\* one acceptable and one faulty payload for each creation
GateOfferInputs == LedgerCreateInputs \cup {[title |-> "t1", description |-> "", details |-> <<B1, S1>>]}

GateOrderInputs == LedgerOrderInputs \cup {[business_user |-> 1]}

GateReviewCreateInputs == {[business_user |-> 2, rating |-> r] : r \in {0, 4}}

NextCreationGates ==
    \/ \E t \in USER_TYPES : Registration(t)
    \/ CreateSuperuser
    \/ \E u \in UserIds : \E data \in BodyFor(is_authenticated(u), {[type |-> ""]}) : ProfilePatch(u, u, data)
    \/ \E u \in Principals, data \in GateOfferInputs : OfferCreate(u, data)
    \/ \E u \in Principals, data \in GateOrderInputs : OrderCreate(u, data)
    \/ \E u \in Principals, data \in GateReviewCreateInputs : ReviewCreateValidate(u, data)
    \/ \E i \in 1..MaxPending : ReviewCreateSave(i)

SpecCreationGates == Init /\ [][NextCreationGates]_vars

\* ------------------------------------------------ offer reads specification
MaxCatalog == 2

\* two price lists: the cheapest and the fastest tier are the first row of one only
CatalogTiers ==
    { <<B1, S1, P1>>,
      <<[B1 EXCEPT !.price = 5, !.delivery_time_in_days = 3], S1, P1>> }

\* two business accounts and the offers they published
InitCatalog ==
    /\ users = DOMAIN GUESTS
    /\ staff = {}
    /\ profile = [u \in DOMAIN GUESTS |-> [type |-> "business"]]
    /\ \E n \in 0..MaxCatalog :
          /\ offers \in [1..n -> {[owner |-> u, title |-> "t1", description |-> ""] : u \in DOMAIN GUESTS}]
          /\ \E tiers \in [1..n -> CatalogTiers] :
                details = [i \in 1..(3 * n) |-> [offer |-> (i + 2) \div 3] @@ tiers[(i + 2) \div 3][((i - 1) % 3) + 1]]
          /\ seq = [offer |-> n, detail |-> 3 * n, order |-> 0, review |-> 0]
    /\ orders = <<>>
    /\ reviews = <<>>
    /\ pending = <<>>
    /\ resp = Response("none", Anon, 0, 0)
    /\ now = 0

CatalogIds == 1..(MaxCatalog + 1)

OfferReadPatchInputs == {[title |-> "t2", details |-> <<[offer_type |-> "premium", price |-> 0]>>]}

OfferListQueries ==
    { <<>>,
      [min_price |-> "0.01"],
      [min_price |-> "1"],
      [min_price |-> "abc"],
      [max_delivery_time |-> "1"],
      [max_delivery_time |-> "-1"],
      [creator_id |-> "x"],
      [creator_id |-> "2", min_price |-> "0.01", max_delivery_time |-> "2"],
      [creator_id |-> "1", max_delivery_time |-> "1"],
      [search |-> "t2"],
      [ordering |-> "price"] }

NextOfferReads ==
    \/ \E u \in Principals, oid \in CatalogIds : \E data \in BodyFor(MayPatchOffer(u, oid), OfferReadPatchInputs) :
          OfferPatch(u, oid, data)
    \/ \E u \in Principals, oid \in CatalogIds : OfferRetrieve(u, oid)
    \/ \E u \in {Anon}, params \in OfferListQueries : OfferList(u, params)

SpecOfferReads == InitCatalog /\ [][NextOfferReads]_vars

\* --------------------------------------------------- profile specification
\* one id beyond the last account, for requests on an absent user
ProfileIds == 1..(MaxUsers + 1)

ProfilePatchInputs == {[type |-> t] : t \in {"business", "", "gold"}}

NextProfiles ==
    \/ \E t \in USER_TYPES : Registration(t)
    \/ CreateSuperuser
    \/ \E u \in Principals, pk \in ProfileIds : \E data \in BodyFor(u = pk, ProfilePatchInputs) : ProfilePatch(u, pk, data)

SpecProfiles == Init /\ [][NextProfiles]_vars

\* ----------------------------------------------- order count specification
\* orders placed by the guest customer, in any status, with either account as business party
CountedRows ==
    {[OrderCreateSerializer_create(1, 1) EXCEPT !.business_user = b, !.status = st] :
        b \in DOMAIN GUESTS, st \in Status}

InitOrderCount ==
    /\ users = DOMAIN GUESTS
    /\ staff = {}
    /\ profile = GUESTS
    /\ offers = (1 :> [owner |-> 2, title |-> "t1", description |-> ""])
    /\ details = [i \in 1..3 |-> [offer |-> 1] @@ <<B1, S1, P1>>[i]]
    /\ now = 0
    /\ \E n \in 0..MaxListed :
          /\ orders \in [1..n -> CountedRows]
          /\ seq = [offer |-> 1, detail |-> 3, order |-> n, review |-> 0]
    /\ reviews = <<>>
    /\ pending = <<>>
    /\ resp = Response("none", Anon, 0, 0)

ListedIds == 1..(MaxListed + 1)

NextOrderCount ==
    \/ \E u \in Principals, id \in ListedIds, data \in {[status |-> "completed"]} : OrderPatch(u, id, data)
    \/ \E u \in Principals, b \in ProfileIds : OrderCountAPIView_get(u, b)
    \/ \E u \in Principals, b \in ProfileIds : CompletedOrderCountAPIView_get(u, b)

SpecOrderCount == InitOrderCount /\ [][NextOrderCount]_vars

\* --------------------------------------------------- base info specification
MaxRated == 4

\* one business (1) and the customers that may have reviewed it
Raters == 2..(MaxRated + 1)

RatedIds == 1..MaxRated

\* review i was written by customer i + 1
InitBaseInfo ==
    /\ users = {1} \cup Raters
    /\ staff = {}
    /\ profile = [u \in {1} \cup Raters |-> [type |-> IF u = 1 THEN "business" ELSE "customer"]]
    /\ offers = <<>>
    /\ details = <<>>
    /\ orders = <<>>
    /\ \E n \in 0..MaxRated :
          /\ \E rating \in [1..n -> {1, 4, 5}] :
                reviews = [i \in 1..n |-> [business_user |-> 1, reviewer |-> i + 1, rating |-> rating[i], description |-> ""]]
          /\ seq = [offer |-> 0, detail |-> 0, order |-> 0, review |-> n]
    /\ pending = <<>>
    /\ resp = Response("none", Anon, 0, 0)
    /\ now = 0

NextBaseInfo ==
    \/ BaseInfoAPIView_get
    \/ \E u \in {1}, data \in LedgerCreateInputs : OfferCreate(u, data)
    \/ \E u \in {1, 2}, data \in {[type |-> "business"]} : ProfilePatch(u, u, data)
    \/ \E id \in RatedIds, data \in {[rating |-> 2]} : ReviewPatch(id + 1, id, data)
    \/ \E id \in RatedIds : ReviewDelete(id + 1, id)

SpecBaseInfo == InitBaseInfo /\ [][NextBaseInfo]_vars

\* ---------------------------------------------- profile race specification
ProfileRaceInputs == {[type |-> t] : t \in {"business", "customer"}}

NextProfileRace ==
    \/ \E t \in {"customer"} : Registration(t)
    \/ CreateSuperuser
    \/ \E u \in Principals : \E pk \in {u, 1} : \E data \in BodyFor(u = pk, ProfileRaceInputs) :
          ProfilePatchLookup(u, pk, data)
    \/ \E i \in 1..MaxPending : ProfilePatchSave(i)

SpecProfileRace == Init /\ [][NextProfileRace]_vars

\* ------------------------------------------------ order reads specification
\* the two guest accounts, the offer of the business guest, and a third
\* account made by createsuperuser that takes part in no order
Bystander == 3

InitBystander ==
    /\ users = DOMAIN GUESTS \cup {Bystander}
    /\ staff = {Bystander}
    /\ profile = GUESTS
    /\ offers = (1 :> [owner |-> 2, title |-> "t1", description |-> ""])
    /\ details = [i \in 1..3 |-> [offer |-> 1] @@ <<B1, S1, P1>>[i]]
    /\ orders = <<>>
    /\ reviews = <<>>
    /\ seq = [offer |-> 1, detail |-> 3, order |-> 0, review |-> 0]
    /\ pending = <<>>
    /\ resp = Response("none", Anon, 0, 0)
    /\ now = 0

NextOrderReads ==
    \/ \E u \in users \cup {Anon} : \E data \in BodyFor(IsCustomerUser(u), LedgerOrderInputs) : OrderCreate(u, data)
    \/ \E u \in users \cup {Anon}, id \in OrderIds : \E data \in BodyFor(is_authenticated(u), LedgerStatusInputs) :
          OrderPatch(u, id, data)
    \/ \E u \in users \cup {Anon}, id \in OrderIds :
          \E data \in BodyFor(is_authenticated(u) /\ id \in DOMAIN orders, LedgerPutInputs) : OrderPut(u, id, data)
    \/ \E u \in users \cup {Anon}, id \in OrderIds : OrderRetrieve(u, id)
    \/ \E u \in users \cup {Anon} : OrderList(u)
    \/ \E u \in users \cup {Anon}, id \in OrderIds : OrderDelete(u, id)

SpecOrderReads == InitBystander /\ [][NextOrderReads]_vars

\* ------------------------------------------------------ role specification
RoleInputs == {[type |-> t] : t \in USER_TYPES}

RoleReviewInputs == {[business_user |-> b, rating |-> 4] : b \in DOMAIN GUESTS}

NextRoles ==
    \/ \E u \in Principals : \E pk \in {u} : \E data \in RoleInputs : ProfilePatch(u, pk, data)
    \/ \E u \in Principals, data \in LedgerCreateInputs : OfferCreate(u, data)
    \/ \E u \in Principals, data \in LedgerOrderInputs : OrderCreate(u, data)
    \/ \E u \in Principals, data \in RoleReviewInputs : ReviewCreateValidate(u, data)
    \/ \E i \in 1..MaxPending : ReviewCreateSave(i)

SpecRoles == InitGuests /\ [][NextRoles]_vars

\* ------------------------------------------------ offer race specification
OfferRaceInputs ==
    { [title |-> "t2"],
      [description |-> "d"],
      [details |-> <<[offer_type |-> "basic", price |-> 5]>>] }

\* requests on the first offer and on an absent one
NextOfferRace ==
    \/ \E u \in Principals, data \in LedgerCreateInputs : OfferCreate(u, data)
    \/ \E u \in Principals, oid \in {1, MaxOffers + 1} : \E data \in BodyFor(MayPatchOffer(u, oid), OfferRaceInputs) :
          OfferPatchLoad(u, oid, data)
    \/ \E i \in 1..MaxPending : OfferPatchSave(i)

SpecOfferRace == InitGuests /\ [][NextOfferRace]_vars

\* ================================================================== claims
DetailsOf(oid) == {i \in DOMAIN details : details[i].offer = oid}

\* C1: in every reachable state every stored Offer has exactly three
\* OfferDetail rows, one for each of the tiers basic, standard and premium.
C1_ThreeTiersPerOffer ==
    \A oid \in DOMAIN offers :
        /\ Cardinality(DetailsOf(oid)) = 3
        /\ {details[i].offer_type : i \in DetailsOf(oid)} = OfferType

C1_Witness ==
    /\ resp.op = "OfferPatch" /\ resp.code = 200
    /\ resp.target \in DOMAIN offers
    /\ \E i \in DetailsOf(resp.target) : details[i].price = 5

\* the faults of a details list that the claim names
C2_Faulty(ds) ==
    \/ Len(ds) # 3
    \/ \E i, j \in DOMAIN ds : i # j /\ ds[i].offer_type = ds[j].offer_type
    \/ \E i \in DOMAIN ds :
          \/ ds[i].offer_type \notin {"basic", "standard", "premium"}
          \/ ds[i].price < 0
          \/ ds[i].delivery_time_in_days < 1
          \/ ds[i].revisions < 0

\* C2: an Offer Create by a business principal whose details list is faulty
\* (wrong length, repeated tier, unknown tier, price < 0, delivery < 1 or
\* revisions < 0) answers 400 and leaves offers and details as they were.
C2_FaultyCreateRejected ==
    [][\A u \in {resp'.user} \cap UserIds, data \in OfferCreateInputs :
          (resp'.op = "OfferCreate" /\ resp'.user = u /\ IsBusinessUser(u) /\ C2_Faulty(data.details)
              /\ OfferCreate(u, data))
              => (resp'.code = 400 /\ offers' = offers /\ details' = details)]_vars

C2_Witness ==
    /\ resp.op = "OfferCreate" /\ resp.code = 400
    /\ IsBusinessUser(resp.user)
    /\ DOMAIN offers = {} /\ DOMAIN details = {}

\* C3: a successful Order Create adds exactly one Order; its customer is the
\* principal, its business party the owner of the detail's Offer, its status
\* in_progress, and its snapshot fields equal the detail's fields in the
\* state in which the request was served.
C3_OrderSnapshotsDetail ==
    [][\A u \in Principals, data \in LedgerOrderInputs :
          (OrderCreate(u, data) /\ resp'.code = 201) =>
              LET id == resp'.target
                  od == details[data.offer_detail_id]
              IN /\ id \notin DOMAIN orders
                 /\ DOMAIN orders' = DOMAIN orders \cup {id}
                 /\ \A o \in DOMAIN orders : orders'[o] = orders[o]
                 /\ orders'[id].customer_user = u
                 /\ orders'[id].business_user = offers[od.offer].owner
                 /\ orders'[id].status = "in_progress"
                 /\ orders'[id].offer_type = od.offer_type
                 /\ \A f \in DetailFields : orders'[id][f] = od[f]]_vars

C3_Witness ==
    /\ resp.op = "OrderCreate" /\ resp.code = 201
    /\ resp.target \in DOMAIN orders
    /\ orders[resp.target].title = "c"

\* C4: an Offer Patch that changes a detail leaves every existing Order, as
\* the order serializer reports it, exactly as it was before the patch.
C4_PatchKeepsOrders ==
    [][(resp'.op = "OfferPatch" /\ details' # details) =>
          \A o \in DOMAIN orders :
              /\ o \in DOMAIN orders'
              /\ OrderOutputSerializer(o)' = OrderOutputSerializer(o)]_vars

C4_Witness ==
    /\ resp.op = "OfferPatch" /\ resp.code = 200
    /\ \E o \in DOMAIN orders :
          /\ orders[o].offer_detail \in DOMAIN details
          /\ \A f \in DetailFields : details[orders[o].offer_detail][f] # orders[o][f]

OrderFrozenFields == OrderOutputFields \ {"status"}

\* C5: no step changes the customer, the business party or a snapshot field
\* of an Order that stays stored.
C5_OnlyStatusChanges ==
    [][\A o \in DOMAIN orders :
          o \in DOMAIN orders' => \A f \in OrderFrozenFields : orders'[o][f] = orders[o][f]]_vars

\* C6: in every reachable state at most one Review exists for each
\* (business_user, reviewer) pair, also when creations interleave.
C6_OneReviewPerPair ==
    \A i, j \in DOMAIN reviews :
        (reviews[i].business_user = reviews[j].business_user /\ reviews[i].reviewer = reviews[j].reviewer)
            => i = j

C6_Witness ==
    /\ resp.op = "ReviewCreate" /\ resp.code = 500
    /\ \E i \in DOMAIN reviews : reviews[i].reviewer = resp.user

\* C7: a Review Create never ends in an error other than 401, 403 or the
\* ValidationError 400, also for the second of two concurrent attempts.
C7_DuplicateIsValidationError ==
    resp.op = "ReviewCreate" => resp.code \in {201, 400, 401, 403}

OnlyStatus(data) == DOMAIN data = {"status"} /\ data.status \in Status

C9_OwnerDeleteSucceeds ==
    [][\A u \in UserIds, oid \in OfferIds :
          (oid \in DOMAIN offers /\ IsOfferOwner(u, oid) /\ OfferDelete(u, oid))
              => /\ resp'.code = 204
                 /\ oid \notin DOMAIN offers'
                 /\ \A i \in DOMAIN details' : details'[i].offer # oid
                 /\ orders' = orders]_vars

\* C10: an Order Create by the owner of the referenced detail's Offer
\* answers 403 and stores nothing, and the Order a successful Order Create
\* stores has a customer different from its business party.
C10_NoSelfOrder ==
    [][\A u \in UserIds, data \in LedgerOrderInputs :
          /\ (/\ u \in users
              /\ data.offer_detail_id \in DOMAIN details
              /\ offers[details[data.offer_detail_id].offer].owner = u
              /\ OrderCreate(u, data))
                 => (resp'.code = 403 /\ orders' = orders)
          /\ (OrderCreate(u, data) /\ resp'.code = 201)
                 => orders'[resp'.target].customer_user # orders'[resp'.target].business_user]_vars

C10_Witness ==
    /\ resp.op = "OrderCreate" /\ resp.code = 403
    /\ IsCustomerUser(resp.user)
    /\ \E oid \in DOMAIN offers : offers[oid].owner = resp.user
    /\ DOMAIN orders = {}

\* C11: Order List for an authenticated principal answers 200 with exactly
\* the stored Orders whose customer or business party is the principal, each
\* once, newest created_at first and, among equal created_at, larger id first.
C11_ListIsOwnOrdersNewestFirst ==
    [][\A u \in {resp'.user} \cap UserIds :
          (resp'.op = "OrderList" /\ resp'.user = u /\ is_authenticated(u) /\ OrderList(u)) =>
              LET body == resp'.body IN
              /\ resp'.code = 200
              /\ {body[i] : i \in DOMAIN body} =
                     {o \in DOMAIN orders : orders[o].customer_user = u \/ orders[o].business_user = u}
              /\ \A i, j \in DOMAIN body : i # j => body[i] # body[j]
              /\ \A i, j \in DOMAIN body : i < j =>
                     \/ orders[body[i]].created_at > orders[body[j]].created_at
                     \/ /\ orders[body[i]].created_at = orders[body[j]].created_at
                        /\ body[i] > body[j]]_vars

C11_Witness ==
    /\ resp.op = "OrderList" /\ resp.code = 200
    /\ Len(resp.body) = 2
    /\ orders[resp.body[1]].created_at = orders[resp.body[2]].created_at
    /\ orders[resp.body[1]].business_user = resp.user
    /\ orders[resp.body[2]].customer_user = resp.user
    /\ \E o \in DOMAIN orders : o \notin {resp.body[1], resp.body[2]} /\ orders[o].created_at > orders[resp.body[1]].created_at

\* C12: a PATCH on an Order whose payload has a key other than status leaves
\* the order table as it was, also when the payload carries a valid status,
\* and answers an authenticated principal 400.
C12_ExtraKeyRejected ==
    [][\A u \in {resp'.user} \cap Principals, id \in {resp'.target} \cap OrderIds, data \in LedgerStatusInputs :
          (resp'.op = "OrderPatch" /\ resp'.user = u /\ resp'.target = id
              /\ DOMAIN data \ {"status"} # {} /\ OrderPatch(u, id, data))
              => /\ orders' = orders
                 /\ is_authenticated(u) => resp'.code = 400]_vars

C12_Witness ==
    /\ resp.op = "OrderPatch" /\ resp.code = 400 /\ Has(resp, "detail")
    /\ resp.target \in DOMAIN orders
    /\ IsOrderBusinessUser(resp.user, resp.target)
    /\ orders[resp.target].status = "in_progress"

\* C13: every stored Order's status is in_progress, completed or cancelled,
\* and a status-only PATCH with any other value leaves the order table as it
\* was and answers the Order's business party 400.
C13_StatusDomain ==
    /\ [](\A o \in DOMAIN orders : orders[o].status \in {"in_progress", "completed", "cancelled"})
    /\ [][\A u \in {resp'.user} \cap Principals, id \in {resp'.target} \cap OrderIds, data \in LedgerStatusInputs :
             (resp'.op = "OrderPatch" /\ resp'.user = u /\ resp'.target = id
                 /\ DOMAIN data = {"status"} /\ data.status \notin {"in_progress", "completed", "cancelled"}
                 /\ OrderPatch(u, id, data))
                 => /\ orders' = orders
                    /\ (id \in DOMAIN orders /\ IsOrderBusinessUser(u, id)) => resp'.code = 400]_vars

C13_Witness ==
    /\ resp.op = "OrderPatch" /\ resp.code = 400 /\ ~Has(resp, "detail")
    /\ resp.target \in DOMAIN orders
    /\ IsOrderBusinessUser(resp.user, resp.target)
    /\ orders[resp.target].status = "completed"

\* C14: Order Delete answers an anonymous caller 401, every authenticated
\* principal that is not staff 403 with the order table as it was, staff 404
\* for an absent id, and for staff on a stored Order 204 with that Order
\* removed; the order table changes in no other case.
C14_DeleteIsStaffOnly ==
    [][\A u \in {resp'.user} \cap Principals, id \in {resp'.target} \cap OrderIds :
          (resp'.op = "OrderDelete" /\ resp'.user = u /\ resp'.target = id /\ OrderDelete(u, id))
              => /\ ~is_authenticated(u) => (resp'.code = 401 /\ orders' = orders)
                 /\ (is_authenticated(u) /\ u \notin staff) => (resp'.code = 403 /\ orders' = orders)
                 /\ (u \in staff /\ id \notin DOMAIN orders) => (resp'.code = 404 /\ orders' = orders)
                 /\ (u \in staff /\ id \in DOMAIN orders) =>
                        /\ resp'.code = 204
                        /\ DOMAIN orders' = DOMAIN orders \ {id}
                        /\ \A o \in DOMAIN orders' : orders'[o] = orders[o]]_vars

C14_Witness ==
    /\ resp.op = "OrderDelete" /\ resp.code = 403
    /\ resp.target \in DOMAIN orders
    /\ orders[resp.target].business_user = resp.user
    /\ orders[resp.target].customer_user \in staff

\* C15: Offer Patch and Offer Delete on a stored Offer, and Review Patch and
\* Review Delete on a stored Review, by an authenticated principal that is
\* not the owner (Offer.owner, Review.reviewer) are refused and leave offers,
\* details and reviews as they were; no step changes a stored Offer's owner.
C15_OwnerGates ==
    /\ [][\A oid \in DOMAIN offers : oid \in DOMAIN offers' => offers'[oid].owner = offers[oid].owner]_vars
    /\ [][\A u \in {resp'.user} \cap UserIds, oid \in {resp'.target} \cap OfferIds :
             (/\ resp'.op \in {"OfferPatch", "OfferDelete"} /\ resp'.user = u /\ resp'.target = oid
              /\ is_authenticated(u) /\ oid \in DOMAIN offers /\ offers[oid].owner # u
              /\ (OfferDelete(u, oid) \/ \E data \in GatePatchInputs : OfferPatch(u, oid, data)))
                 => (resp'.code = 403 /\ offers' = offers /\ details' = details)]_vars
    /\ [][\A u \in {resp'.user} \cap UserIds, id \in {resp'.target} \cap ReviewIds :
             (/\ resp'.op \in {"ReviewPatch", "ReviewDelete"} /\ resp'.user = u /\ resp'.target = id
              /\ is_authenticated(u) /\ id \in DOMAIN reviews /\ reviews[id].reviewer # u
              /\ (ReviewDelete(u, id) \/ \E data \in GateReviewPatchInputs : ReviewPatch(u, id, data)))
                 => (resp'.code \in {400, 403} /\ reviews' = reviews)]_vars

C15_Witness ==
    /\ resp.op = "OfferDelete" /\ resp.code = 403
    /\ resp.target \in DOMAIN offers
    /\ is_authenticated(resp.user)
    /\ \E id \in DOMAIN reviews : reviews[id].reviewer = resp.user /\ reviews[id].rating = 2

\* positions of the detail patches of a payload that name tier t and carry field f
PatchesOf(data, t, f) ==
    {k \in DOMAIN data.details :
        Has(data.details[k], "offer_type") /\ data.details[k].offer_type = t /\ Has(data.details[k], f)}

\* C16: a successful Offer Patch writes the offer-level fields present in the
\* payload and, in the detail of each tier the payload names, the fields
\* present in that tier's patch; every other offer field, detail field,
\* detail row, detail id, tier and owner is as before.
C16_PatchFrame ==
    [][\A u \in {resp'.user} \cap UserIds, oid \in {resp'.target} \cap OfferIds, data \in CatalogPatchInputs :
          (resp'.op = "OfferPatch" /\ resp'.user = u /\ resp'.target = oid /\ resp'.code = 200
              /\ OfferPatch(u, oid, data))
              => /\ DOMAIN offers' = DOMAIN offers
                 /\ \A o \in DOMAIN offers \ {oid} : offers'[o] = offers[o]
                 /\ offers'[oid].owner = offers[oid].owner
                 /\ \A f \in {"title", "description"} :
                        offers'[oid][f] = IF Has(data, f) THEN data[f] ELSE offers[oid][f]
                 /\ DOMAIN details' = DOMAIN details
                 /\ \A i \in DOMAIN details :
                        /\ details'[i].offer = details[i].offer
                        /\ details'[i].offer_type = details[i].offer_type
                        /\ details[i].offer # oid => details'[i] = details[i]
                        /\ \A f \in DetailFields :
                               LET K == IF Has(data, "details") /\ details[i].offer = oid
                                        THEN PatchesOf(data, details[i].offer_type, f) ELSE {}
                               IN details'[i][f] =
                                      IF K = {} THEN details[i][f]
                                      ELSE data.details[CHOOSE k \in K : \A j \in K : j <= k][f]]_vars

C16_Witness ==
    /\ resp.op = "OfferPatch" /\ resp.code = 200
    /\ resp.target \in DOMAIN offers
    /\ \E i, j \in DetailsOf(resp.target) :
          /\ details[i].offer_type = "basic" /\ details[i].title = "c" /\ details[i].price = 5
          /\ details[i].revisions = 0 /\ details[i].delivery_time_in_days = 1
          /\ details[j].offer_type = "premium" /\ details[j].price = 2

\* C17: an Offer Patch by the owner whose payload has several detail patches
\* of which one is refused while the serializer applies them (id mismatch,
\* tier without a detail, tier missing) answers 400 and leaves offers and
\* details as they were, the offer-level fields and the earlier patches too.
C17_PatchAllOrNothing ==
    [][\A u \in {resp'.user} \cap UserIds, oid \in {resp'.target} \cap OfferIds, data \in CatalogPatchInputs :
          (/\ resp'.op = "OfferPatch" /\ resp'.user = u /\ resp'.target = oid
           /\ oid \in DOMAIN offers /\ offers[oid].owner = u
           /\ Has(data, "details") /\ Len(data.details) >= 2
           /\ \A k \in DOMAIN data.details : OfferDetailPartialSerializer_validate(data.details[k])
           /\ ~_apply_details_updates(details, oid, data.details).ok
           /\ OfferPatch(u, oid, data))
              => (resp'.code = 400 /\ offers' = offers /\ details' = details)]_vars

C17_Witness ==
    /\ resp.op = "OfferPatch" /\ resp.code = 400
    /\ Has(resp, "detail") /\ resp.detail = "Detail id mismatch."
    /\ resp.target \in DOMAIN offers
    /\ offers[resp.target].description = ""
    /\ \E i, j \in DetailsOf(resp.target) :
          /\ i = 3 /\ details[i].offer_type = "premium" /\ details[i].revisions = 1
          /\ details[j].offer_type = "standard" /\ details[j].title = "a"

\* C18: every stored Review's rating is an integer from 1 to 5; a Review
\* Create by a customer and a Review Patch by the reviewer with a rating
\* outside 1..5 answer 400 and leave reviews (and the creations in flight)
\* as they were.
C18_RatingBounds ==
    /\ [](\A id \in DOMAIN reviews : reviews[id].rating \in 1..5)
    /\ [][\A u \in {resp'.user} \cap UserIds, data \in ReviewCreateInputs :
             (/\ resp'.op \in {"ReviewCreate", "ReviewValidated"} /\ resp'.user = u
              /\ is_authenticated(u) /\ ProfileTypeOf(u) = "customer" /\ data.rating \notin 1..5
              /\ ReviewCreateValidate(u, data))
                 => (resp'.code = 400 /\ reviews' = reviews /\ pending' = pending)]_vars
    /\ [][\A u \in {resp'.user} \cap UserIds, id \in {resp'.target} \cap ReviewIds, data \in ReviewPatchInputs :
             (/\ resp'.op = "ReviewPatch" /\ resp'.user = u /\ resp'.target = id
              /\ id \in DOMAIN reviews /\ reviews[id].reviewer = u
              /\ Has(data, "rating") /\ data.rating \notin 1..5
              /\ ReviewPatch(u, id, data))
                 => (resp'.code = 400 /\ reviews' = reviews)]_vars

C18_Witness ==
    /\ resp.op = "ReviewPatch" /\ resp.code = 400 /\ ~Has(resp, "detail")
    /\ resp.target \in DOMAIN reviews
    /\ reviews[resp.target].reviewer = resp.user
    /\ reviews[resp.target].rating = 2

\* C19: the reviewer of a Review is the principal whose Review Create
\* stored it, whatever reviewer the payload named; no step changes the
\* reviewer or the business party of a stored Review; a Review Patch by an
\* authenticated principal with a key other than rating and description
\* answers 400 and leaves reviews as they were.
C19_ReviewerIsCreator ==
    /\ [][\A u \in {resp'.user} \cap UserIds, data \in ReviewCreateInputs :
             (resp'.op = "ReviewValidated" /\ resp'.user = u /\ ReviewCreateValidate(u, data))
                 => pending'[Len(pending')].reviewer = u]_vars
    /\ [][\A i \in DOMAIN pending :
             (resp'.op = "ReviewCreate" /\ resp'.code = 201 /\ ReviewCreateSave(i))
                 => /\ DOMAIN reviews' = DOMAIN reviews \cup {resp'.target}
                    /\ resp'.target \notin DOMAIN reviews
                    /\ reviews'[resp'.target].reviewer = pending[i].reviewer
                    /\ resp'.user = pending[i].reviewer]_vars
    /\ [][\A id \in DOMAIN reviews \cap DOMAIN reviews' :
             /\ reviews'[id].reviewer = reviews[id].reviewer
             /\ reviews'[id].business_user = reviews[id].business_user]_vars
    /\ [][\A u \in {resp'.user} \cap UserIds, id \in {resp'.target} \cap ReviewIds, data \in ReviewPatchInputs :
             (/\ resp'.op = "ReviewPatch" /\ resp'.user = u /\ resp'.target = id
              /\ is_authenticated(u) /\ DOMAIN data \ {"rating", "description"} # {}
              /\ ReviewPatch(u, id, data))
                 => (resp'.code = 400 /\ reviews' = reviews)]_vars

C19_Witness ==
    /\ resp.op = "ReviewPatch" /\ resp.code = 400 /\ Has(resp, "detail")
    /\ resp.target \in DOMAIN reviews
    /\ reviews[resp.target].reviewer = resp.user
    /\ reviews[resp.target].reviewer # 1
    /\ reviews[resp.target].business_user = 1

\* C20: Offer Create answers an anonymous caller 401 and an authenticated
\* principal whose profile role is not business at that moment (customer,
\* empty, no profile) 403; Order Create and Review Create answer an anonymous
\* caller 401 and a principal whose role is not customer 403; this holds for
\* acceptable and faulty payloads alike, and a creation that is refused
\* leaves offers, details, orders and reviews as they were.
C20_CreationGates ==
    /\ [][\A u \in {resp'.user} \cap Principals, data \in GateOfferInputs :
             (resp'.op = "OfferCreate" /\ OfferCreate(u, data))
                 => /\ ~is_authenticated(u) => resp'.code = 401
                    /\ (is_authenticated(u) /\ ~(u \in DOMAIN profile /\ profile[u].type = "business"))
                           => resp'.code = 403]_vars
    /\ [][\A u \in {resp'.user} \cap Principals, data \in GateOrderInputs :
             (resp'.op = "OrderCreate" /\ OrderCreate(u, data))
                 => /\ ~is_authenticated(u) => resp'.code = 401
                    /\ (is_authenticated(u) /\ ProfileTypeOf(u) # "customer") => resp'.code = 403]_vars
    /\ [][\A u \in {resp'.user} \cap Principals, data \in GateReviewCreateInputs :
             (resp'.op \in {"ReviewCreate", "ReviewValidated"} /\ ReviewCreateValidate(u, data))
                 => /\ ~is_authenticated(u) => resp'.code = 401
                    /\ (is_authenticated(u) /\ ProfileTypeOf(u) # "customer") => resp'.code = 403]_vars
    /\ [][(resp'.op \in {"OfferCreate", "OrderCreate", "ReviewCreate"} /\ resp'.code # 201)
             => (offers' = offers /\ details' = details /\ orders' = orders /\ reviews' = reviews)]_vars

C20_Witness ==
    /\ resp.op = "OrderCreate" /\ resp.code = 403
    /\ is_authenticated(resp.user)
    /\ resp.user \in DOMAIN profile /\ profile[resp.user].type = ""
    /\ \E o \in DOMAIN orders : orders[o].customer_user = resp.user

\* the two-decimal rendering of a float, in hundredths
Hundredths(f) == (f * 100 + 2^(FloatFractionBits - 1)) \div 2^FloatFractionBits

\* m is the least value of field f over the current detail rows of offer oid
TrueMinimum(oid, f, m) ==
    /\ \E i \in DetailsOf(oid) : details[i][f] = m
    /\ \A i \in DetailsOf(oid) : details[i][f] >= m

ReportsTrueMinima(r) ==
    /\ r.id \in DOMAIN offers
    /\ TrueMinimum(r.id, "price", Hundredths(r.min_price))
    /\ TrueMinimum(r.id, "delivery_time_in_days", r.min_delivery_time)

\* C21: the min_price and min_delivery_time that the list and the retrieve
\* operation report for an Offer are the least price and the least
\* delivery_time_in_days over the Offer's current detail rows, also after
\* Patch requests changed prices or delivery times.
C21_ReportedMinima ==
    /\ (resp.op = "OfferRetrieve" /\ resp.code = 200) => ReportsTrueMinima(resp.body)
    /\ (resp.op = "OfferList" /\ resp.code = 200) => \A r \in resp.body : ReportsTrueMinima(r)

\* a list response that reports a minimum a Patch moved to the premium row
C21_Witness ==
    /\ resp.op = "OfferList" /\ resp.code = 200
    /\ \E r \in resp.body :
          /\ Hundredths(r.min_price) = 0
          /\ \E i \in DetailsOf(r.id) :
                /\ details[i].offer_type = "premium" /\ details[i].price = 0
                /\ \A j \in DetailsOf(r.id) \ {i} : details[j].price > 0
          /\ \E i \in DetailsOf(r.id) :
                details[i].offer_type = "basic" /\ details[i].delivery_time_in_days = 3

\* the filters the claim speaks of, each given as a number
NumericFilters(q) ==
    /\ DOMAIN q \subseteq {"creator_id", "min_price", "max_delivery_time"}
    /\ Has(q, "creator_id") => isdigit(q.creator_id)
    /\ Has(q, "min_price") => Decimal(q.min_price) # None
    /\ Has(q, "max_delivery_time") => isdigit(q.max_delivery_time)

\* offer o passes every filter of q, judged on its current detail rows
PassesFilters(o, q) ==
    /\ Has(q, "creator_id") => offers[o].owner = int_of(q.creator_id)
    /\ Has(q, "min_price") => \A i \in DetailsOf(o) : details[i].price >= Decimal(q.min_price)
    /\ Has(q, "max_delivery_time") =>
          \E i \in DetailsOf(o) : details[i].delivery_time_in_days <= int_of(q.max_delivery_time)

\* C22: Offer List with min_price=X returns exactly the Offers whose least
\* detail price is >= X, with max_delivery_time=Y exactly those whose least
\* delivery time is <= Y, and with several of creator_id, min_price and
\* max_delivery_time the intersection.
C22_FiltersExact ==
    (resp.op = "OfferList" /\ NumericFilters(resp.query)) =>
        /\ resp.code = 200
        /\ {r.id : r \in resp.body} = {o \in DOMAIN offers : PassesFilters(o, resp.query)}

\* three filters at once keep one offer and drop one for its price and owner
C22_Witness ==
    /\ resp.op = "OfferList" /\ resp.code = 200
    /\ DOMAIN resp.query = {"creator_id", "min_price", "max_delivery_time"}
    /\ \E r \in resp.body : \A i \in DetailsOf(r.id) : details[i].price >= 1
    /\ \E o \in DOMAIN offers :
          /\ o \notin {r.id : r \in resp.body}
          /\ offers[o].owner = int_of(resp.query.creator_id)
          /\ \E i \in DetailsOf(o) : details[i].price = 0

\* C23: a PATCH on /profile/{pk}/ by an authenticated principal other than
\* pk gets one and the same 403 response whether or not a user or a Profile
\* with id pk exists, creates no Profile and changes no stored field.
C23_NonOwnerPatchIsBlind ==
    [][\A u \in {resp'.user} \cap UserIds, pk \in {resp'.target} \cap ProfileIds, data \in ProfilePatchInputs :
          (resp'.op = "ProfilePatch" /\ is_authenticated(u) /\ u # pk /\ ProfilePatch(u, pk, data))
              => /\ resp' = Response("ProfilePatch", u, pk, 403)
                               @@ [detail |-> "You are only allowed to update your own profile."]
                 /\ profile' = profile
                 /\ users' = users]_vars

\* the refused PATCH aimed at an id no account has, while a profile of
\* another account is stored
C23_Witness ==
    /\ resp.op = "ProfilePatch" /\ resp.code = 403
    /\ resp.user \in users
    /\ resp.target \notin users
    /\ resp.target \notin DOMAIN profile
    /\ \E v \in DOMAIN profile : v # resp.user

CountedStatus(op) == IF op = "OrderCount" THEN "in_progress" ELSE "completed"

\* C24: CountByStatus for business id b returns the number of stored Orders
\* with business party b and the queried status (in_progress for
\* order-count, completed for completed-order-count) and changes nothing;
\* an absent user and a user whose profile role is not business get the
\* same 404 response.
C24_CountByStatus ==
    [][(resp'.op \in {"OrderCount", "CompletedOrderCount"} /\ is_authenticated(resp'.user)) =>
          /\ db' = db
          /\ IF resp'.target \in users /\ ProfileTypeOf(resp'.target) = "business"
             THEN /\ resp'.code = 200
                  /\ resp'.body.count =
                        Cardinality({o \in DOMAIN orders :
                                        /\ orders[o].business_user = resp'.target
                                        /\ orders[o].status = CountedStatus(resp'.op)})
             ELSE resp' = Response(resp'.op, resp'.user, resp'.target, 404)
                             @@ [detail |-> "Business user not found."]]_vars

\* a completed-order count of 2 while the business also has an order in
\* another status
C24_Witness ==
    /\ resp.op = "CompletedOrderCount" /\ resp.code = 200
    /\ resp.body.count = 2
    /\ \E o \in DOMAIN orders : orders[o].business_user = resp.target /\ orders[o].status # "completed"

\* t tenths is a one-decimal number nearest to sum / n
NearestTenth(t, sum, n) ==
    /\ 2 * (t * n - 10 * sum) <= n
    /\ 2 * (10 * sum - t * n) <= n

\* C25: the base-info read returns the numbers of stored Reviews, of
\* business-role Profiles and of Offers, and the mean of the stored ratings
\* rounded to one decimal, which is 0.0 when no Review exists; it changes
\* no stored data.
C25_BaseInfo ==
    [][resp'.op = "BaseInfo" =>
          /\ db' = db
          /\ resp'.code = 200
          /\ resp'.body.review_count = Cardinality(DOMAIN reviews)
          /\ resp'.body.business_profile_count = Cardinality({u \in users : ProfileTypeOf(u) = "business"})
          /\ resp'.body.offer_count = Cardinality(DOMAIN offers)
          /\ IF DOMAIN reviews = {} THEN resp'.body.average_rating = 0
             ELSE NearestTenth(resp'.body.average_rating, SumRatings(DOMAIN reviews), Cardinality(DOMAIN reviews))]_vars

\* the read over ratings whose mean 4.25 lies halfway between two tenths,
\* with an offer stored and a second business profile
C25_Witness ==
    /\ resp.op = "BaseInfo"
    /\ resp.body.review_count = 4
    /\ SumRatings(DOMAIN reviews) = 17
    /\ resp.body.average_rating = 42
    /\ resp.body.offer_count = 1
    /\ resp.body.business_profile_count = 2

\* C26: each user has at most one Profile under any interleaving of
\* registrations and owner PATCH requests, and an owner PATCH that finds no
\* Profile creates it and applies the patch, also when two first PATCHes of
\* the same owner run concurrently.
C26_FirstPatchCreatesAndApplies ==
    [][\A i \in DOMAIN pending :
          (resp'.op = "ProfilePatch" /\ ~pending[i].found /\ pending[i].data.type \in USER_TYPES
              /\ ProfilePatchSave(i))
              => /\ resp'.code = 200
                 /\ pending[i].user \in DOMAIN profile'
                 /\ profile'[pending[i].user].type = pending[i].data.type]_vars

\* C27: for every payload, a PATCH on an existing Order by an authenticated
\* principal who is not the Order's business party answers 403 and leaves
\* the Order unchanged: the ownership gate comes before the payload.
C27_OwnershipBeforePayload ==
    [][\A u \in {resp'.user} \cap UserIds, id \in {resp'.target} \cap OrderIds, data \in LedgerStatusInputs :
          (resp'.op = "OrderPatch" /\ is_authenticated(u) /\ id \in DOMAIN orders
              /\ orders[id].business_user # u /\ OrderPatch(u, id, data))
              => /\ resp'.code = 403
                 /\ orders' = orders]_vars

IsParty(u, o) == orders[o].customer_user = u \/ orders[o].business_user = u

\* C28: no order endpoint returns the data of an Order to an authenticated
\* principal who is neither its customer nor its business party: neither
\* the list on /orders/ nor any method on /orders/{id}/.
C28_OrdersInvisibleToOthers ==
    [][/\ (resp'.op = "OrderList" /\ resp'.code = 200) =>
             \A i \in DOMAIN resp'.body : IsParty(resp'.user, resp'.body[i])
       /\ (resp'.op \in {"OrderRetrieve", "OrderPut", "OrderPatch", "OrderDelete"} /\ resp'.code = 200) =>
             IsParty(resp'.user, resp'.target)]_vars

\* C29: in every reachable state the owner of every stored Offer has
\* profile role business and the customer of every stored Order and the
\* reviewer of every stored Review has profile role customer; no user both
\* owns an Offer and is the customer of an Order or the reviewer of a Review.
C29_RolesOfStoredRows ==
    /\ \A o \in DOMAIN offers : ProfileTypeOf(offers[o].owner) = "business"
    /\ \A o \in DOMAIN orders : ProfileTypeOf(orders[o].customer_user) = "customer"
    /\ \A r \in DOMAIN reviews : ProfileTypeOf(reviews[r].reviewer) = "customer"
    /\ \A o \in DOMAIN offers :
          /\ \A i \in DOMAIN orders : orders[i].customer_user # offers[o].owner
          /\ \A r \in DOMAIN reviews : reviews[r].reviewer # offers[o].owner

\* C29 amended: a row is stored only by a request whose principal held the
\* required role when the request passed its gate: business for the owner of
\* a new Offer, customer for the customer of a new Order and for the
\* reviewer of a Review admitted to be saved; the owner's profile PATCH may
\* change the role afterwards and the rows stay.
C29_RoleAtCreation ==
    [][/\ \A o \in DOMAIN offers' \ DOMAIN offers : ProfileTypeOf(offers'[o].owner) = "business"
       /\ \A o \in DOMAIN orders' \ DOMAIN orders : ProfileTypeOf(orders'[o].customer_user) = "customer"
       /\ Len(pending') > Len(pending) => ProfileTypeOf(pending'[Len(pending')].reviewer) = "customer"
       /\ \A r \in DOMAIN reviews' \ DOMAIN reviews :
             \E i \in DOMAIN pending : pending[i].reviewer = reviews'[r].reviewer
       /\ (resp'.op = "ProfilePatch") => (offers' = offers /\ orders' = orders /\ reviews' = reviews)]_vars

\* a user who owns an Offer, has since changed role, and is the reviewer of
\* a stored Review
C29_Witness ==
    \E o \in DOMAIN offers, r \in DOMAIN reviews :
        /\ reviews[r].reviewer = offers[o].owner
        /\ ProfileTypeOf(offers[o].owner) = "customer"
        /\ resp.op = "ReviewCreate" /\ resp.code = 201

\* C30: a Patch whose input does not contain an offer-level field never
\* changes that field's stored value, also when two Patch requests of the
\* owner for the same Offer run concurrently on disjoint fields: neither
\* overwrites the other's field with the value it loaded earlier.
C30_AbsentFieldUntouched ==
    [][\A i \in DOMAIN pending :
          (resp'.op = "OfferPatch" /\ OfferPatchSave(i))
              => \A f \in {"title", "description"} \ DOMAIN pending[i].data :
                    offers'[pending[i].offer][f] = offers[pending[i].offer][f]]_vars

====
